---------------------------- MODULE Spec2Model ----------------------------
(***************************************************************************)
(* The recursive-descent parser of the TINY compiler (src/parse.c) as a    *)
(* state machine.  The C call stack is the variable `stack`; every         *)
(* function of parse.c is one action that runs the function from one call  *)
(* site to the next (a call pushes a frame, a return pops one and leaves   *)
(* the returned pointer in `ret`).  Tree nodes live in `heap`; a pointer   *)
(* is an index into it and NULL is 0.                                      *)
(***************************************************************************)
EXTENDS Integers, Sequences, FiniteSets, TLC

VARIABLES input,        \* the token sequence the scanner will deliver
          pos,          \* number of tokens fetched so far (the cursor)
          token,        \* static TokenType token: kind of the lookahead
          tokenString,  \* lexeme of the lookahead
          Error,        \* the global error flag
          nerr,         \* number of diagnostics written to the listing
          heap,         \* the allocated tree nodes
          stack,        \* the call stack, innermost frame last
          ret,          \* value returned by the last function that returned
          result,       \* value returned by parse()
          steps         \* number of steps taken so far

vars == <<input, pos, token, tokenString, Error, nerr, heap, stack, ret,
          result, steps>>

(***************************************************************************)
(* Bounds.                                                                 *)
(***************************************************************************)
MaxLen == 2       \* every token sequence up to this length is an input
MaxSteps == 150   \* cap on the number of steps of one run

NULL == 0

(***************************************************************************)
(* Tokens.                                                                 *)
(***************************************************************************)
ReservedWords == {"IF", "THEN", "ELSE", "END", "REPEAT", "UNTIL", "READ",
                  "WRITE", "WHILE", "DO", "ENDWHILE", "FOR", "TO", "DOWNTO",
                  "ENDDO"}

Symbols == {"ASSIGN", "EQ", "LT", "GT", "PLUS", "MINUS", "TIMES", "OVER",
            "MOD", "LPAREN", "RPAREN", "SEMI"}

TokenType == ReservedWords \cup Symbols \cup {"ID", "NUM", "ENDFILE"}

K(type) == [type |-> type, str |-> <<>>]
Id(s) == [type |-> "ID", str |-> s]
Num(s) == [type |-> "NUM", str |-> s]

EndOfInput == K("ENDFILE")

\* The scanner's stream: the input, then end-of-input for ever.
TokenAt(i) == IF i >= 1 /\ i <= Len(input) THEN input[i] ELSE EndOfInput

DigitVal(c) ==
  CASE c = "0" -> 0 [] c = "1" -> 1 [] c = "2" -> 2 [] c = "3" -> 3
    [] c = "4" -> 4 [] c = "5" -> 5 [] c = "6" -> 6 [] c = "7" -> 7
    [] c = "8" -> 8 [] c = "9" -> 9

RECURSIVE atoi(_)
atoi(s) ==
  IF s = <<>> THEN 0
  ELSE 10 * atoi(SubSeq(s, 1, Len(s) - 1)) + DigitVal(s[Len(s)])

copyString(s) == s

(***************************************************************************)
(* Tree nodes.                                                             *)
(***************************************************************************)
\* attr is a C union that the allocator leaves unset: attr = "none".
NewNode(nodekind, kind) ==
  [nodekind |-> nodekind, kind |-> kind, child |-> <<NULL, NULL, NULL>>,
   sibling |-> NULL, attr |-> "none", name |-> <<>>, op |-> "ENDFILE",
   val |-> 0]

newStmtNode(kind) == NewNode("StmtK", kind)
newExpNode(kind) == NewNode("ExpK", kind)

SetChild(h, n, i, c) == [h EXCEPT ![n].child[i + 1] = c]
SetName(h, n, s) == [h EXCEPT ![n].attr = "name", ![n].name = s]
SetOp(h, n, o) == [h EXCEPT ![n].attr = "op", ![n].op = o]
SetVal(h, n, v) == [h EXCEPT ![n].attr = "val", ![n].val = v]

(***************************************************************************)
(* The call stack.                                                         *)
(***************************************************************************)
Frame(fn) == [fn |-> fn, pc |-> 0, t |-> NULL, p |-> NULL,
              expected |-> "ENDFILE"]
MatchFrame(expected) == [Frame("match") EXCEPT !.expected = expected]

Top == stack[Len(stack)]
Rest == SubSeq(stack, 1, Len(stack) - 1)
Running(fn) == stack # <<>> /\ Top.fn = fn /\ steps < MaxSteps
done == stack = <<>>

Flags == <<Error, nerr>>

\* f goes on at f.pc after the callee returns.
Call(f, callee) ==
  /\ stack' = Rest \o <<f, callee>>
  /\ ret' = ret
Return(v) ==
  /\ stack' = Rest
  /\ ret' = v
Tick == steps' = steps + 1 /\ result' = result /\ input' = input

(***************************************************************************)
(* syntaxError, getToken, match.                                           *)
(***************************************************************************)
syntaxError ==
  /\ Error' = TRUE
  /\ nerr' = nerr + 1

getToken ==
  /\ pos' = pos + 1
  /\ token' = TokenAt(pos + 1).type
  /\ tokenString' = TokenAt(pos + 1).str

\* Faulty variant of match: a mismatch is passed over without a diagnostic.
match_silent ==
  /\ Running("match")
  /\ IF token = Top.expected
       THEN getToken /\ UNCHANGED Flags
       ELSE UNCHANGED <<pos, token, tokenString, Flags>>
  /\ Return(ret)
  /\ UNCHANGED heap
  /\ Tick

\* Faulty variant of match: a mismatch skips the token as well.
match_always ==
  /\ Running("match")
  /\ IF token = Top.expected
       THEN getToken /\ UNCHANGED Flags
       ELSE getToken /\ syntaxError
  /\ Return(ret)
  /\ UNCHANGED heap
  /\ Tick

match ==
  /\ Running("match")
  /\ IF token = Top.expected
       THEN getToken /\ UNCHANGED Flags
       ELSE syntaxError /\ UNCHANGED <<pos, token, tokenString>>
  /\ Return(ret)
  /\ UNCHANGED heap
  /\ Tick

Look == <<pos, token, tokenString>>

\* A step that touches only the heap, the stack and ret.
Plain(h) ==
  /\ heap' = h
  /\ UNCHANGED <<Look, Flags>>
  /\ Tick

(***************************************************************************)
(* stmt_sequence and statement.                                            *)
(***************************************************************************)
\* Faulty variant of IsSeqEnd: end-of-input does not end a sequence.
IsSeqEnd_NoEndfile(tok) ==
  tok \in {"END", "ELSE", "UNTIL", "WHILE", "ENDWHILE", "ENDDO"}

\* The negation of the loop condition of stmt_sequence.
IsSeqEnd(tok) ==
  tok \in {"ENDFILE", "END", "ELSE", "UNTIL", "WHILE", "ENDWHILE", "ENDDO"}

\* Faulty variant of SeqAppend: the tail pointer p is not moved on.
SeqAppend_KeepP(h, t, p, q) ==
  IF q # NULL
    THEN IF t = NULL
           THEN [heap |-> h, t |-> q, p |-> q]
           ELSE [heap |-> [h EXCEPT ![p].sibling = q], t |-> t, p |-> p]
    ELSE [heap |-> h, t |-> t, p |-> p]

\* if (q!=NULL) { if (t==NULL) t = p = q; else { p->sibling = q; p = q; } }
SeqAppend(h, t, p, q) ==
  IF q # NULL
    THEN IF t = NULL
           THEN [heap |-> h, t |-> q, p |-> q]
           ELSE [heap |-> [h EXCEPT ![p].sibling = q], t |-> t, p |-> q]
    ELSE [heap |-> h, t |-> t, p |-> p]

\* The loop test: another round starts with match(SEMI), else return t.
SeqLoop(f) ==
  IF ~IsSeqEnd(token)
    THEN Call([f EXCEPT !.pc = 2], MatchFrame("SEMI"))
    ELSE Return(f.t)

stmt_sequence ==
  /\ Running("stmt_sequence")
  /\ LET f == Top IN
     CASE f.pc = 0 ->
            Call([f EXCEPT !.pc = 1], Frame("statement")) /\ Plain(heap)
       [] f.pc = 1 ->
            SeqLoop([f EXCEPT !.t = ret, !.p = ret]) /\ Plain(heap)
       [] f.pc = 2 ->
            Call([f EXCEPT !.pc = 3], Frame("statement")) /\ Plain(heap)
       [] f.pc = 3 ->
            LET r == SeqAppend(heap, f.t, f.p, ret) IN
              SeqLoop([f EXCEPT !.t = r.t, !.p = r.p]) /\ Plain(r.heap)

StmtStart == {"IF", "REPEAT", "ID", "READ", "WRITE", "WHILE", "DO", "FOR"}

StmtFn(tok) ==
  CASE tok = "IF" -> "if_stmt"
    [] tok = "REPEAT" -> "repeat_stmt"
    [] tok = "ID" -> "assign_stmt"
    [] tok = "READ" -> "read_stmt"
    [] tok = "WRITE" -> "write_stmt"
    [] tok = "WHILE" -> "while_stmt"
    [] tok = "DO" -> "dowhile_stmt"
    [] tok = "FOR" -> "for_stmt"

\* Faulty variant of statement: the default branch fetches no token.
statement_noskip ==
  /\ Running("statement")
  /\ LET f == Top IN
     CASE f.pc = 0 ->
            IF token \in StmtStart
              THEN Call([f EXCEPT !.pc = 1], Frame(StmtFn(token)))
                   /\ Plain(heap)
              ELSE /\ syntaxError
                   /\ UNCHANGED Look
                   /\ Return(NULL)
                   /\ heap' = heap
                   /\ Tick
       [] f.pc = 1 -> Return(ret) /\ Plain(heap)

statement ==
  /\ Running("statement")
  /\ LET f == Top IN
     CASE f.pc = 0 ->
            IF token \in StmtStart
              THEN Call([f EXCEPT !.pc = 1], Frame(StmtFn(token)))
                   /\ Plain(heap)
              ELSE /\ syntaxError
                   /\ getToken
                   /\ Return(NULL)
                   /\ heap' = heap
                   /\ Tick
       [] f.pc = 1 -> Return(ret) /\ Plain(heap)

(***************************************************************************)
(* The statement productions.  newStmtNode never fails here, so the        *)
(* guards `t != NULL` of the source are true.                              *)
(***************************************************************************)
if_stmt ==
  /\ Running("if_stmt")
  /\ LET f == Top IN
     CASE f.pc = 0 ->
            /\ Call([f EXCEPT !.t = Len(heap) + 1, !.pc = 1], MatchFrame("IF"))
            /\ Plain(Append(heap, newStmtNode("IfK")))
       [] f.pc = 1 ->
            Call([f EXCEPT !.pc = 2], MatchFrame("LPAREN")) /\ Plain(heap)
       [] f.pc = 2 ->
            Call([f EXCEPT !.pc = 3], Frame("exp")) /\ Plain(heap)
       [] f.pc = 3 ->
            /\ Call([f EXCEPT !.pc = 4], MatchFrame("RPAREN"))
            /\ Plain(SetChild(heap, f.t, 0, ret))
       [] f.pc = 4 ->
            Call([f EXCEPT !.pc = 5], MatchFrame("THEN")) /\ Plain(heap)
       [] f.pc = 5 ->
            Call([f EXCEPT !.pc = 6], Frame("stmt_sequence")) /\ Plain(heap)
       [] f.pc = 6 ->
            /\ IF token = "ELSE"
                 THEN Call([f EXCEPT !.pc = 7], MatchFrame("ELSE"))
                 ELSE Call([f EXCEPT !.pc = 9], MatchFrame("END"))
            /\ Plain(SetChild(heap, f.t, 1, ret))
       [] f.pc = 7 ->
            Call([f EXCEPT !.pc = 8], Frame("stmt_sequence")) /\ Plain(heap)
       [] f.pc = 8 ->
            /\ Call([f EXCEPT !.pc = 9], MatchFrame("END"))
            /\ Plain(SetChild(heap, f.t, 2, ret))
       [] f.pc = 9 -> Return(f.t) /\ Plain(heap)

repeat_stmt ==
  /\ Running("repeat_stmt")
  /\ LET f == Top IN
     CASE f.pc = 0 ->
            /\ Call([f EXCEPT !.t = Len(heap) + 1, !.pc = 1],
                    MatchFrame("REPEAT"))
            /\ Plain(Append(heap, newStmtNode("RepeatK")))
       [] f.pc = 1 ->
            Call([f EXCEPT !.pc = 2], Frame("stmt_sequence")) /\ Plain(heap)
       [] f.pc = 2 ->
            /\ Call([f EXCEPT !.pc = 3], MatchFrame("UNTIL"))
            /\ Plain(SetChild(heap, f.t, 0, ret))
       [] f.pc = 3 ->
            Call([f EXCEPT !.pc = 4], Frame("exp")) /\ Plain(heap)
       [] f.pc = 4 ->
            Return(f.t) /\ Plain(SetChild(heap, f.t, 1, ret))

assign_stmt ==
  /\ Running("assign_stmt")
  /\ LET f == Top IN
     CASE f.pc = 0 ->
            LET t == Len(heap) + 1
                h == Append(heap, newStmtNode("AssignK")) IN
              /\ Call([f EXCEPT !.t = t, !.pc = 1], MatchFrame("ID"))
              /\ Plain(IF token = "ID"
                         THEN SetName(h, t, copyString(tokenString))
                         ELSE h)
       [] f.pc = 1 ->
            Call([f EXCEPT !.pc = 2], MatchFrame("ASSIGN")) /\ Plain(heap)
       [] f.pc = 2 ->
            Call([f EXCEPT !.pc = 3], Frame("exp")) /\ Plain(heap)
       [] f.pc = 3 ->
            Return(f.t) /\ Plain(SetChild(heap, f.t, 0, ret))

read_stmt ==
  /\ Running("read_stmt")
  /\ LET f == Top IN
     CASE f.pc = 0 ->
            /\ Call([f EXCEPT !.t = Len(heap) + 1, !.pc = 1],
                    MatchFrame("READ"))
            /\ Plain(Append(heap, newStmtNode("ReadK")))
       [] f.pc = 1 ->
            /\ Call([f EXCEPT !.pc = 2], MatchFrame("ID"))
            /\ Plain(IF token = "ID"
                       THEN SetName(heap, f.t, copyString(tokenString))
                       ELSE heap)
       [] f.pc = 2 -> Return(f.t) /\ Plain(heap)

write_stmt ==
  /\ Running("write_stmt")
  /\ LET f == Top IN
     CASE f.pc = 0 ->
            /\ Call([f EXCEPT !.t = Len(heap) + 1, !.pc = 1],
                    MatchFrame("WRITE"))
            /\ Plain(Append(heap, newStmtNode("WriteK")))
       [] f.pc = 1 ->
            Call([f EXCEPT !.pc = 2], Frame("exp")) /\ Plain(heap)
       [] f.pc = 2 ->
            Return(f.t) /\ Plain(SetChild(heap, f.t, 0, ret))

while_stmt ==
  /\ Running("while_stmt")
  /\ LET f == Top IN
     CASE f.pc = 0 ->
            /\ Call([f EXCEPT !.t = Len(heap) + 1, !.pc = 1],
                    MatchFrame("WHILE"))
            /\ Plain(Append(heap, newStmtNode("WhileK")))
       [] f.pc = 1 ->
            Call([f EXCEPT !.pc = 2], Frame("exp")) /\ Plain(heap)
       [] f.pc = 2 ->
            /\ Call([f EXCEPT !.pc = 3], MatchFrame("DO"))
            /\ Plain(SetChild(heap, f.t, 0, ret))
       [] f.pc = 3 ->
            Call([f EXCEPT !.pc = 4], Frame("stmt_sequence")) /\ Plain(heap)
       [] f.pc = 4 ->
            /\ Call([f EXCEPT !.pc = 5], MatchFrame("ENDWHILE"))
            /\ Plain(SetChild(heap, f.t, 1, ret))
       [] f.pc = 5 -> Return(f.t) /\ Plain(heap)

dowhile_stmt ==
  /\ Running("dowhile_stmt")
  /\ LET f == Top IN
     CASE f.pc = 0 ->
            /\ Call([f EXCEPT !.t = Len(heap) + 1, !.pc = 1], MatchFrame("DO"))
            /\ Plain(Append(heap, newStmtNode("DoWhileK")))
       [] f.pc = 1 ->
            Call([f EXCEPT !.pc = 2], Frame("stmt_sequence")) /\ Plain(heap)
       [] f.pc = 2 ->
            /\ Call([f EXCEPT !.pc = 3], MatchFrame("WHILE"))
            /\ Plain(SetChild(heap, f.t, 0, ret))
       [] f.pc = 3 ->
            Call([f EXCEPT !.pc = 4], MatchFrame("LPAREN")) /\ Plain(heap)
       [] f.pc = 4 ->
            Call([f EXCEPT !.pc = 5], Frame("exp")) /\ Plain(heap)
       [] f.pc = 5 ->
            /\ Call([f EXCEPT !.pc = 6], MatchFrame("RPAREN"))
            /\ Plain(SetChild(heap, f.t, 1, ret))
       [] f.pc = 6 -> Return(f.t) /\ Plain(heap)

\* if (token == TO) match(TO); if (token == DOWNTO) match(DOWNTO);
\* and then child[1] = simple_exp().
ForDownto(f) ==
  IF token = "DOWNTO"
    THEN Call([f EXCEPT !.pc = 6], MatchFrame("DOWNTO"))
    ELSE Call([f EXCEPT !.pc = 7], Frame("simple_exp"))

for_stmt ==
  /\ Running("for_stmt")
  /\ LET f == Top IN
     CASE f.pc = 0 ->
            /\ Call([f EXCEPT !.t = Len(heap) + 1, !.pc = 1], MatchFrame("FOR"))
            /\ Plain(Append(heap, newStmtNode("ForK")))
       [] f.pc = 1 ->
            /\ Call([f EXCEPT !.pc = 2], MatchFrame("ID"))
            /\ Plain(IF token = "ID"
                       THEN SetName(heap, f.t, copyString(tokenString))
                       ELSE heap)
       [] f.pc = 2 ->
            Call([f EXCEPT !.pc = 3], MatchFrame("ASSIGN")) /\ Plain(heap)
       [] f.pc = 3 ->
            Call([f EXCEPT !.pc = 4], Frame("simple_exp")) /\ Plain(heap)
       [] f.pc = 4 ->
            /\ IF token = "TO"
                 THEN Call([f EXCEPT !.pc = 5], MatchFrame("TO"))
                 ELSE ForDownto(f)
            /\ Plain(SetChild(heap, f.t, 0, ret))
       [] f.pc = 5 -> ForDownto(f) /\ Plain(heap)
       [] f.pc = 6 ->
            Call([f EXCEPT !.pc = 7], Frame("simple_exp")) /\ Plain(heap)
       [] f.pc = 7 ->
            /\ Call([f EXCEPT !.pc = 8], MatchFrame("DO"))
            /\ Plain(SetChild(heap, f.t, 1, ret))
       [] f.pc = 8 ->
            Call([f EXCEPT !.pc = 9], Frame("stmt_sequence")) /\ Plain(heap)
       [] f.pc = 9 ->
            /\ Call([f EXCEPT !.pc = 10], MatchFrame("ENDDO"))
            /\ Plain(SetChild(heap, f.t, 2, ret))
       [] f.pc = 10 -> Return(f.t) /\ Plain(heap)

(***************************************************************************)
(* The expression productions.                                             *)
(***************************************************************************)
IsRelop(tok) == tok \in {"LT", "EQ", "GT"}
IsAddop(tok) == tok \in {"PLUS", "MINUS"}

\* Faulty variant of IsMulop: term folds the additive operators too.
IsMulop_WithPlus(tok) == tok \in {"TIMES", "OVER", "MOD", "PLUS", "MINUS"}

IsMulop(tok) == tok \in {"TIMES", "OVER", "MOD"}

\* Faulty variant of OpNode: the accumulator goes into child[1].
OpNode_Swapped(h, t, tok) ==
  LET p == Len(h) + 1 IN
    SetOp(SetChild(Append(h, newExpNode("OpK")), p, 1, t), p, tok)

\* p = newExpNode(OpK); p->child[0] = t; p->attr.op = token;
\* the new node is at Len(h) + 1.
OpNode(h, t, tok) ==
  LET p == Len(h) + 1 IN
    SetOp(SetChild(Append(h, newExpNode("OpK")), p, 0, t), p, tok)

\* exp after a simple_exp has returned t: the relational operator, if any.
ExpRelop(f, t) ==
  IF IsRelop(token)
    THEN /\ Call([f EXCEPT !.t = Len(heap) + 1, !.pc = 2], MatchFrame(token))
         /\ Plain(OpNode(heap, t, token))
    ELSE Return(t) /\ Plain(heap)

\* Faulty variant of exp: `while` for `if`, relational operators chain.
exp_chain ==
  /\ Running("exp")
  /\ LET f == Top IN
     CASE f.pc = 0 ->
            Call([f EXCEPT !.pc = 1], Frame("simple_exp")) /\ Plain(heap)
       [] f.pc = 1 -> ExpRelop(f, ret)
       [] f.pc = 2 ->
            Call([f EXCEPT !.pc = 3], Frame("simple_exp")) /\ Plain(heap)
       [] f.pc = 3 ->
            IF IsRelop(token)
              THEN /\ Call([f EXCEPT !.t = Len(heap) + 1, !.pc = 2],
                           MatchFrame(token))
                   /\ Plain(OpNode(SetChild(heap, f.t, 1, ret), f.t, token))
              ELSE Return(f.t) /\ Plain(SetChild(heap, f.t, 1, ret))

exp ==
  /\ Running("exp")
  /\ LET f == Top IN
     CASE f.pc = 0 ->
            Call([f EXCEPT !.pc = 1], Frame("simple_exp")) /\ Plain(heap)
       [] f.pc = 1 -> ExpRelop(f, ret)
       [] f.pc = 2 ->
            Call([f EXCEPT !.pc = 3], Frame("simple_exp")) /\ Plain(heap)
       [] f.pc = 3 ->
            Return(f.t) /\ Plain(SetChild(heap, f.t, 1, ret))

\* The loop of simple_exp with accumulator t and heap h.
AddLoop(f, t, h) ==
  IF IsAddop(token)
    THEN /\ Call([f EXCEPT !.t = Len(h) + 1, !.pc = 2], MatchFrame(token))
         /\ Plain(OpNode(h, t, token))
    ELSE Return(t) /\ Plain(h)

simple_exp ==
  /\ Running("simple_exp")
  /\ LET f == Top IN
     CASE f.pc = 0 ->
            Call([f EXCEPT !.pc = 1], Frame("term")) /\ Plain(heap)
       [] f.pc = 1 -> AddLoop(f, ret, heap)
       [] f.pc = 2 ->
            Call([f EXCEPT !.pc = 3], Frame("term")) /\ Plain(heap)
       [] f.pc = 3 -> AddLoop(f, f.t, SetChild(heap, f.t, 1, ret))

\* The loop of term with accumulator t and heap h.
MulLoop(f, t, h) ==
  IF IsMulop(token)
    THEN /\ Call([f EXCEPT !.t = Len(h) + 1, !.pc = 2], MatchFrame(token))
         /\ Plain(OpNode(h, t, token))
    ELSE Return(t) /\ Plain(h)

term ==
  /\ Running("term")
  /\ LET f == Top IN
     CASE f.pc = 0 ->
            Call([f EXCEPT !.pc = 1], Frame("factor")) /\ Plain(heap)
       [] f.pc = 1 -> MulLoop(f, ret, heap)
       [] f.pc = 2 ->
            Call([f EXCEPT !.pc = 3], Frame("factor")) /\ Plain(heap)
       [] f.pc = 3 -> MulLoop(f, f.t, SetChild(heap, f.t, 1, ret))

factor ==
  /\ Running("factor")
  /\ LET f == Top
         t == Len(heap) + 1 IN
     CASE f.pc = 0 ->
            CASE token = "NUM" ->
                   /\ Call([f EXCEPT !.t = t, !.pc = 1], MatchFrame("NUM"))
                   /\ Plain(SetVal(Append(heap, newExpNode("ConstK")), t,
                                   atoi(tokenString)))
              [] token = "ID" ->
                   /\ Call([f EXCEPT !.t = t, !.pc = 1], MatchFrame("ID"))
                   /\ Plain(SetName(Append(heap, newExpNode("IdK")), t,
                                    copyString(tokenString)))
              [] token = "LPAREN" ->
                   /\ Call([f EXCEPT !.pc = 2], MatchFrame("LPAREN"))
                   /\ Plain(heap)
              [] OTHER ->
                   /\ syntaxError
                   /\ getToken
                   /\ Return(NULL)
                   /\ heap' = heap
                   /\ Tick
       [] f.pc = 1 -> Return(f.t) /\ Plain(heap)
       [] f.pc = 2 ->
            Call([f EXCEPT !.pc = 3], Frame("exp")) /\ Plain(heap)
       [] f.pc = 3 ->
            Call([f EXCEPT !.t = ret, !.pc = 1], MatchFrame("RPAREN"))
            /\ Plain(heap)

(***************************************************************************)
(* parse.                                                                  *)
(***************************************************************************)
\* Faulty variant of parse: no test for trailing input.
parse_nocheck ==
  /\ Running("parse")
  /\ LET f == Top IN
     CASE f.pc = 0 ->
            /\ getToken
            /\ Call([f EXCEPT !.pc = 1], Frame("stmt_sequence"))
            /\ UNCHANGED <<Flags, heap>>
            /\ Tick
       [] f.pc = 1 ->
            /\ UNCHANGED Flags
            /\ result' = ret
            /\ Return(ret)
            /\ steps' = steps + 1
            /\ UNCHANGED <<input, Look, heap>>

parse ==
  /\ Running("parse")
  /\ LET f == Top IN
     CASE f.pc = 0 ->
            /\ getToken
            /\ Call([f EXCEPT !.pc = 1], Frame("stmt_sequence"))
            /\ UNCHANGED <<Flags, heap>>
            /\ Tick
       [] f.pc = 1 ->
            /\ IF token # "ENDFILE" THEN syntaxError ELSE UNCHANGED Flags
            /\ result' = ret
            /\ Return(ret)
            /\ steps' = steps + 1
            /\ UNCHANGED <<input, Look, heap>>

(***************************************************************************)
(* The inputs: every token sequence of at most MaxLen tokens, a set of     *)
(* sample programs, and every sequence one edit (a token deleted,          *)
(* replaced or inserted) away from a sample program.                       *)
(***************************************************************************)
Alphabet == {K(type) : type \in ReservedWords \cup Symbols}
               \cup {Id(<<"z">>), Num(<<"7">>)}

Short == UNION {[1..n -> Alphabet] : n \in 0..MaxLen}

Programs == {
  \* read x
  <<K("READ"), Id(<<"x">>)>>,
  \* a := 1 ; read b ; write a
  <<Id(<<"a">>), K("ASSIGN"), Num(<<"1">>), K("SEMI"), K("READ"),
    Id(<<"b">>), K("SEMI"), K("WRITE"), Id(<<"a">>)>>,
  \* write 1 - 2 + 3
  <<K("WRITE"), Num(<<"1">>), K("MINUS"), Num(<<"2">>), K("PLUS"),
    Num(<<"3">>)>>,
  \* x := 1 * 2 / 3 % 4
  <<Id(<<"x">>), K("ASSIGN"), Num(<<"1">>), K("TIMES"), Num(<<"2">>),
    K("OVER"), Num(<<"3">>), K("MOD"), Num(<<"4">>)>>,
  \* write 2 + 3 * 4 < 5
  <<K("WRITE"), Num(<<"2">>), K("PLUS"), Num(<<"3">>), K("TIMES"),
    Num(<<"4">>), K("LT"), Num(<<"5">>)>>,
  \* write ( 1 < 2 )
  <<K("WRITE"), K("LPAREN"), Num(<<"1">>), K("LT"), Num(<<"2">>),
    K("RPAREN")>>,
  \* if ( x < 1 ) then write x else read y end
  <<K("IF"), K("LPAREN"), Id(<<"x">>), K("LT"), Num(<<"1">>), K("RPAREN"),
    K("THEN"), K("WRITE"), Id(<<"x">>), K("ELSE"), K("READ"), Id(<<"y">>),
    K("END")>>,
  \* repeat read x ; write x until x = 0
  <<K("REPEAT"), K("READ"), Id(<<"x">>), K("SEMI"), K("WRITE"),
    Id(<<"x">>), K("UNTIL"), Id(<<"x">>), K("EQ"), Num(<<"0">>)>>,
  \* while x > 0 do x := x - 1 endwhile
  <<K("WHILE"), Id(<<"x">>), K("GT"), Num(<<"0">>), K("DO"), Id(<<"x">>),
    K("ASSIGN"), Id(<<"x">>), K("MINUS"), Num(<<"1">>), K("ENDWHILE")>>,
  \* do read x while ( x < 1 )
  <<K("DO"), K("READ"), Id(<<"x">>), K("WHILE"), K("LPAREN"), Id(<<"x">>),
    K("LT"), Num(<<"1">>), K("RPAREN")>>,
  \* for i := 1 to 10 do write i enddo
  <<K("FOR"), Id(<<"i">>), K("ASSIGN"), Num(<<"1">>), K("TO"),
    Num(<<"1", "0">>), K("DO"), K("WRITE"), Id(<<"i">>), K("ENDDO")>>,
  \* if ( 1 < 2 < 3 ) then read x end
  <<K("IF"), K("LPAREN"), Num(<<"1">>), K("LT"), Num(<<"2">>), K("LT"),
    Num(<<"3">>), K("RPAREN"), K("THEN"), K("READ"), Id(<<"x">>),
    K("END")>>,
  \* repeat read x until 1 < 2 < 3
  <<K("REPEAT"), K("READ"), Id(<<"x">>), K("UNTIL"), Num(<<"1">>),
    K("LT"), Num(<<"2">>), K("LT"), Num(<<"3">>)>>,
  \* x := 1 < 2 < 3
  <<Id(<<"x">>), K("ASSIGN"), Num(<<"1">>), K("LT"), Num(<<"2">>),
    K("LT"), Num(<<"3">>)>>,
  \* write 1 < 2 < 3
  <<K("WRITE"), Num(<<"1">>), K("LT"), Num(<<"2">>), K("LT"),
    Num(<<"3">>)>>,
  \* while 1 < 2 < 3 do read x endwhile
  <<K("WHILE"), Num(<<"1">>), K("LT"), Num(<<"2">>), K("LT"),
    Num(<<"3">>), K("DO"), K("READ"), Id(<<"x">>), K("ENDWHILE")>>,
  \* do read x while ( 1 < 2 < 3 )
  <<K("DO"), K("READ"), Id(<<"x">>), K("WHILE"), K("LPAREN"),
    Num(<<"1">>), K("LT"), Num(<<"2">>), K("LT"), Num(<<"3">>),
    K("RPAREN")>>,
  \* write ( 1 < 2 < 3 )
  <<K("WRITE"), K("LPAREN"), Num(<<"1">>), K("LT"), Num(<<"2">>),
    K("LT"), Num(<<"3">>), K("RPAREN")>> }

DeleteAt(s, i) == SubSeq(s, 1, i - 1) \o SubSeq(s, i + 1, Len(s))
ReplaceAt(s, i, tok) == [s EXCEPT ![i] = tok]
InsertAt(s, i, tok) == SubSeq(s, 1, i - 1) \o <<tok>> \o SubSeq(s, i, Len(s))

Edits(s) ==
  {DeleteAt(s, i) : i \in 1..Len(s)}
    \cup {ReplaceAt(s, i, tok) : i \in 1..Len(s), tok \in Alphabet}
    \cup {InsertAt(s, i, tok) : i \in 1..(Len(s) + 1), tok \in Alphabet}

Inputs == Short \cup Programs \cup UNION {Edits(s) : s \in Programs}

(***************************************************************************)
(* The specification.                                                      *)
(***************************************************************************)
Init ==
  /\ input \in Inputs
  /\ pos = 0
  /\ token = "ENDFILE"
  /\ tokenString = <<>>
  /\ Error = FALSE
  /\ nerr = 0
  /\ heap = <<>>
  /\ stack = <<Frame("parse")>>
  /\ ret = NULL
  /\ result = NULL
  /\ steps = 0

Next ==
  \/ parse
  \/ stmt_sequence
  \/ statement
  \/ if_stmt
  \/ repeat_stmt
  \/ assign_stmt
  \/ read_stmt
  \/ write_stmt
  \/ while_stmt
  \/ dowhile_stmt
  \/ for_stmt
  \/ exp
  \/ simple_exp
  \/ term
  \/ factor
  \/ match

Spec == Init /\ [][Next]_vars

\* parse() runs to completion: nothing else is scheduled.
FairSpec == Spec /\ WF_vars(Next)

(***************************************************************************)
(* Vocabulary of the properties.                                           *)
(***************************************************************************)
Nodes == 1..Len(heap)
Types == [i \in 1..Len(input) |-> input[i].type]
Count(type) == Cardinality({i \in 1..Len(input) : input[i].type = type})
Has(type) == \E i \in 1..Len(input) : input[i].type = type

RelationalOps == {"LT", "EQ", "GT"}
AdditiveOps == {"PLUS", "MINUS"}
MultiplicativeOps == {"TIMES", "OVER", "MOD"}
Operands == {"NUM", "ID"}

\* The nodes of the tree under n: children and siblings, transitively.
Links(n) == {heap[n].child[1], heap[n].child[2], heap[n].child[3],
             heap[n].sibling} \ {NULL}
RECURSIVE Closure(_)
Closure(S) ==
  LET T == S \cup UNION {Links(n) : n \in S} IN
    IF T = S THEN S ELSE Closure(T)
TreeNodes(root) == IF root = NULL THEN {} ELSE Closure({root})

(***************************************************************************)
(* C1.  Termination: whatever the token sequence, parse() returns after    *)
(* finitely many steps.                                                    *)
(***************************************************************************)
C1_Termination == <>done

\* A malformed input that drew six or more diagnostics has been parsed to
\* the end.
C1_Witness == done /\ Error /\ nerr >= 6 /\ Len(input) >= 8

(***************************************************************************)
(* C2.  When parse() returns with the error flag unset, the root is not    *)
(* NULL and every node of the tree has the children and the name its kind  *)
(* requires.                                                               *)
(***************************************************************************)
HasChild(n, i) == heap[n].child[i + 1] # NULL
HasName(n) == heap[n].attr = "name"

Complete(n) ==
  LET k == heap[n].kind IN
    CASE k = "IfK" -> HasChild(n, 0) /\ HasChild(n, 1)
      [] k \in {"RepeatK", "WhileK", "DoWhileK"} ->
           HasChild(n, 0) /\ HasChild(n, 1)
      [] k = "AssignK" -> HasName(n) /\ HasChild(n, 0)
      [] k = "ReadK" -> HasName(n)
      [] k = "WriteK" -> HasChild(n, 0)
      [] k = "ForK" ->
           HasName(n) /\ HasChild(n, 0) /\ HasChild(n, 1) /\ HasChild(n, 2)
      [] k = "OpK" -> HasChild(n, 0) /\ HasChild(n, 1)
      [] OTHER -> TRUE

\* C2: an error-free parse returns a non-NULL root and only complete nodes.
C2_CompleteTree ==
  (done /\ ~Error) =>
    /\ result # NULL
    /\ \A n \in TreeNodes(result) : Complete(n)

\* An error-free parse of an if statement with both branches.
C2_Witness ==
  /\ done /\ ~Error
  /\ \E n \in TreeNodes(result) :
       heap[n].kind = "IfK" /\ HasChild(n, 2) /\ Complete(n)

(***************************************************************************)
(* C3.  A for statement is parsed without a diagnostic only if exactly one *)
(* of `to` and `downto` stands between its two expressions.                *)
(***************************************************************************)
\* The tokens of the for header that starts at i: up to the next `do`.
ForHeader(i) ==
  LET dos == {j \in (i + 1)..Len(input) : input[j].type = "DO"}
      stop == IF dos = {} THEN Len(input) + 1
              ELSE CHOOSE j \in dos : \A k \in dos : j <= k
  IN  (i + 1)..(stop - 1)

DirCount(i) ==
  Cardinality({j \in ForHeader(i) : input[j].type \in {"TO", "DOWNTO"}})

\* C3: in an error-free parse every for header holds exactly one of
\* `to` and `downto`.
C3_ForNeedsOneDirection ==
  (done /\ ~Error) =>
    \A i \in 1..Len(input) : input[i].type = "FOR" => DirCount(i) = 1

(***************************************************************************)
(* C4.  When parse() returns, the lookahead is end-of-input or the error   *)
(* flag is set; a parse with the flag unset has fetched the whole input.   *)
(***************************************************************************)
C4_TrailingDiagnosed ==
  done =>
    /\ token = "ENDFILE" \/ (Error /\ nerr >= 1)
    /\ ~Error => pos = Len(input) + 1

\* The only diagnostic of the run is the one for the trailing input.
C4_Witness == done /\ token # "ENDFILE" /\ Error /\ nerr = 1

(***************************************************************************)
(* C5.  For a conforming sequence of n statements separated by `;`,        *)
(* stmt_sequence returns the node of the first statement and the sibling   *)
(* links from it visit the n statement nodes in source order and end in    *)
(* NULL; no chain has a cycle and no node is the sibling of two nodes.     *)
(***************************************************************************)
StmtNodes == {n \in Nodes : heap[n].nodekind = "StmtK"}

\* The nodes met by following the sibling links from n (at most
\* `fuel` of them).
RECURSIVE Chain(_, _)
Chain(n, fuel) ==
  IF n = NULL \/ fuel = 0 THEN <<>>
  ELSE <<n>> \o Chain(heap[n].sibling, fuel - 1)

CompoundWords == {"IF", "REPEAT", "WHILE", "DO", "FOR"}
Flat == \A i \in 1..Len(input) : input[i].type \notin CompoundWords

KindOf(type) ==
  CASE type = "ID" -> "AssignK"
    [] type = "READ" -> "ReadK"
    [] type = "WRITE" -> "WriteK"
    [] OTHER -> "none"

\* The positions where the statements of a flat input start.
Starts == {1} \cup {i + 1 : i \in {j \in 1..Len(input) :
                                     input[j].type = "SEMI"}}

\* The k-th smallest element of S.
Nth(S, k) == CHOOSE x \in S : Cardinality({y \in S : y < x}) = k - 1

\* C5: in an error-free parse the sibling chains are forward, acyclic,
\* injective lists, one link per `;`, and the chain of a flat input is its
\* statements in source order.
C5_SiblingChain ==
  (done /\ ~Error) =>
    LET chain == Chain(result, Len(heap) + 1) IN
      \* the head is the node of the first statement
      /\ result = 1
      \* source order, hence no cycle; every chain ends in NULL
      /\ \A n \in StmtNodes :
           heap[n].sibling # NULL =>
             heap[n].sibling > n /\ heap[n].sibling \in StmtNodes
      /\ \A n \in Nodes \ StmtNodes : heap[n].sibling = NULL
      \* no node is the sibling of two nodes
      /\ \A m, n \in Nodes :
           (m # n /\ heap[m].sibling = heap[n].sibling) =>
             heap[m].sibling = NULL
      \* one link for each separator
      /\ Cardinality({n \in Nodes : heap[n].sibling # NULL}) = Count("SEMI")
      \* every statement node is the head, a sibling or the head of a
      \* nested sequence
      /\ \A n \in StmtNodes :
           \/ n = result
           \/ \E m \in Nodes : heap[m].sibling = n
           \/ \E m \in StmtNodes, i \in 1..3 : heap[m].child[i] = n
      \* a flat input: the chain is the n statements, in order
      /\ Flat =>
           /\ Len(chain) = Count("SEMI") + 1
           /\ \A k \in 1..Len(chain) :
                /\ chain[k] \in StmtNodes
                /\ heap[chain[k]].kind = KindOf(input[Nth(Starts, k)].type)
           /\ \A k \in 1..(Len(chain) - 1) : chain[k] < chain[k + 1]

\* a := 1 ; read b ; write a, and the like: three statements chained.
C5_Witness ==
  /\ done /\ ~Error /\ Flat
  /\ Count("SEMI") = 2
  /\ Len(Chain(result, Len(heap) + 1)) = 3

(***************************************************************************)
(* C6.  A run of operands joined by additive operators (or by              *)
(* multiplicative ones) parses to the left-leaning fold.                   *)
(***************************************************************************)
Nil == <<>>
LeafOf(tok) ==
  IF tok.type = "NUM"
    THEN [kind |-> "ConstK", op |-> "none", name |-> <<>>,
          val |-> atoi(tok.str), l |-> Nil, r |-> Nil]
    ELSE [kind |-> "IdK", op |-> "none", name |-> tok.str, val |-> 0,
          l |-> Nil, r |-> Nil]
OpTree(op, l, r) ==
  [kind |-> "OpK", op |-> op, name |-> <<>>, val |-> 0, l |-> l, r |-> r]

\* The expression tree under n as a value; an absent subtree is Nil, a
\* present one <<tree>>.
RECURSIVE TreeOf(_, _)
TreeOf(n, fuel) ==
  IF n = NULL \/ fuel = 0 THEN Nil
  ELSE LET k == heap[n].kind IN
    <<[kind |-> k,
       op |-> IF heap[n].attr = "op" THEN heap[n].op ELSE "none",
       name |-> IF heap[n].attr = "name" THEN heap[n].name ELSE <<>>,
       val |-> IF heap[n].attr = "val" THEN heap[n].val ELSE 0,
       l |-> TreeOf(heap[n].child[1], fuel - 1),
       r |-> TreeOf(heap[n].child[2], fuel - 1)]>>

\* operand (op operand)* with every op in ops
IsRun(e, ops) ==
  /\ Len(e) % 2 = 1
  /\ \A i \in 1..Len(e) :
       IF i % 2 = 1 THEN e[i].type \in Operands ELSE e[i].type \in ops

RECURSIVE LeftFold(_)
LeftFold(e) ==
  IF Len(e) = 1 THEN <<LeafOf(e[1])>>
  ELSE <<OpTree(e[Len(e) - 1].type, LeftFold(SubSeq(e, 1, Len(e) - 2)),
                <<LeafOf(e[Len(e)])>>)>>

\* The last additive operator of e splits it into a prefix and a term.
RECURSIVE FoldTerms(_)
FoldTerms(e) ==
  LET adds == {i \in 1..Len(e) : e[i].type \in AdditiveOps} IN
    IF adds = {} THEN LeftFold(e)
    ELSE LET k == CHOOSE i \in adds : \A j \in adds : j <= i IN
      <<OpTree(e[k].type, FoldTerms(SubSeq(e, 1, k - 1)),
               LeftFold(SubSeq(e, k + 1, Len(e))))>>

\* The input is `write e`, and e its expression.
IsWrite == Len(input) >= 2 /\ input[1].type = "WRITE"
WriteExp == SubSeq(input, 2, Len(input))
\* The input is `x := e`.
IsAssign ==
  Len(input) >= 3 /\ input[1].type = "ID" /\ input[2].type = "ASSIGN"
AssignExp == SubSeq(input, 3, Len(input))

Folded(e) ==
  /\ IsRun(e, AdditiveOps) \/ IsRun(e, MultiplicativeOps) =>
       TreeOf(heap[result].child[1], Len(heap)) = LeftFold(e)
  /\ IsRun(e, AdditiveOps \cup MultiplicativeOps) =>
       TreeOf(heap[result].child[1], Len(heap)) = FoldTerms(e)

\* C6: the tree of `write e` or `x := e`, e a run of operands, is the left
\* fold of e.
C6_LeftAssociative ==
  done =>
    /\ IsWrite => Folded(WriteExp)
    /\ IsAssign => Folded(AssignExp)

\* x := 1 * 2 / 3 % 4: the root is %, its right child 4, its left (1*2)/3.
C6_Witness ==
  /\ done /\ IsAssign /\ Len(AssignExp) = 7
  /\ IsRun(AssignExp, MultiplicativeOps)
  /\ LET root == heap[result].child[1] IN
       /\ heap[root].op = AssignExp[6].type
       /\ heap[heap[root].child[2]].kind = "ConstK"
       /\ heap[heap[root].child[1]].op = AssignExp[4].type

(***************************************************************************)
(* C7.  In the tree of a parenthesis-free input parsed without diagnostic, *)
(* no multiplicative node has an additive or relational child, no additive *)
(* node has a relational child, and a relational node is the child of no   *)
(* operator node.                                                          *)
(***************************************************************************)
OpNodes == {n \in Nodes : heap[n].kind = "OpK"}
OpChildren(n) == {heap[n].child[1], heap[n].child[2]} \cap OpNodes

\* C7: the precedence order of the operator nodes of an error-free,
\* parenthesis-free parse.
C7_Precedence ==
  (done /\ ~Error /\ ~Has("LPAREN")) =>
    \A n \in OpNodes : \A c \in OpChildren(n) :
      /\ heap[c].op \notin RelationalOps
      /\ heap[n].op \in MultiplicativeOps =>
           heap[c].op \notin AdditiveOps

\* write 2 + 3 * 4 < 5: < over +, + over *.
C7_Witness ==
  /\ done /\ ~Error /\ ~Has("LPAREN")
  /\ \E n \in OpNodes :
       /\ heap[n].op \in RelationalOps
       /\ \E a \in OpChildren(n) :
            /\ heap[a].op \in AdditiveOps
            /\ \E m \in OpChildren(a) :
                 heap[m].op \in MultiplicativeOps /\ heap[a].child[2] = m

(***************************************************************************)
(* C8.  A second relational operator after the right operand of the first  *)
(* is never accepted silently: the parse records a diagnostic.             *)
(***************************************************************************)
Arithmetic == Operands \cup AdditiveOps \cup MultiplicativeOps

\* Two relational operators with nothing but a parenthesis-free arithmetic
\* expression between them.
HasRelChain ==
  \E i, j \in 1..Len(input) :
    /\ i + 1 < j
    /\ input[i].type \in RelationalOps
    /\ input[j].type \in RelationalOps
    /\ \A k \in (i + 1)..(j - 1) : input[k].type \in Arithmetic

\* C8: exp takes at most one relational operator (without parentheses no
\* operator node ever gets a relational child), and a parse of an input
\* with a relational chain ends with a diagnostic recorded.
C8_NoRelationalChain ==
  /\ ~Has("LPAREN") =>
       \A n \in OpNodes : \A c \in OpChildren(n) :
         heap[c].op \notin RelationalOps
  /\ (done /\ HasRelChain) => Error /\ nerr >= 1

\* if ( 1 < 2 < 3 ) then ...: exp built the node of the first `<` with both
\* operands, the second `<` drew a diagnostic, and the run is over.
C8_Witness ==
  /\ done /\ HasRelChain /\ Error
  /\ input[1].type = "IF"
  /\ \E n \in OpNodes : heap[n].op \in RelationalOps /\ HasChild(n, 1)

(***************************************************************************)
(* C9.  match(expected) fetches exactly one token and records nothing when *)
(* the lookahead is the expected kind; otherwise it records a diagnostic,  *)
(* sets the error flag and leaves the cursor where it is.                  *)
(***************************************************************************)
InMatch == stack # <<>> /\ Top.fn = "match"

\* C9: the effect of every match step.
C9_Match ==
  [][InMatch =>
       IF token = Top.expected
         THEN /\ pos' = pos + 1
              /\ token' = TokenAt(pos + 1).type
              /\ Error' = Error /\ nerr' = nerr
         ELSE /\ pos' = pos /\ token' = token /\ tokenString' = tokenString
              /\ Error' = TRUE /\ nerr' = nerr + 1]_vars

\* read_stmt is back from match(ID), which found something else: one
\* diagnostic, and the cursor still on the second token.
C9_Witness ==
  /\ stack # <<>> /\ Top.fn = "read_stmt" /\ Top.pc = 2
  /\ token # "ID" /\ pos = 2 /\ Error /\ nerr = 1

(***************************************************************************)
(* C10.  statement() on a lookahead that starts no statement, and factor() *)
(* on one that starts no factor, record a diagnostic, set the error flag,  *)
(* fetch exactly one token and return no node.                             *)
(***************************************************************************)
StatementDefault ==
  /\ stack # <<>> /\ Top.fn = "statement" /\ Top.pc = 0
  /\ token \notin {"IF", "REPEAT", "ID", "READ", "WRITE", "WHILE", "DO",
                   "FOR"}

FactorDefault ==
  /\ stack # <<>> /\ Top.fn = "factor" /\ Top.pc = 0
  /\ token \notin {"NUM", "ID", "LPAREN"}

\* C10: the effect of the default branch of statement and of factor.
C10_ForcedAdvance ==
  [][(StatementDefault \/ FactorDefault) =>
       /\ Error' = TRUE /\ nerr' = nerr + 1
       /\ pos' = pos + 1 /\ token' = TokenAt(pos + 1).type
       /\ ret' = NULL /\ stack' = Rest /\ heap' = heap]_vars

\* statement() met `end` as the first token, skipped it and returned NULL
\* to stmt_sequence.
C10_Witness ==
  /\ stack # <<>> /\ Top.fn = "stmt_sequence" /\ Top.pc = 1
  /\ Len(input) >= 1 /\ input[1].type = "END"
  /\ ret = NULL /\ pos = 2 /\ Error /\ nerr = 1 /\ heap = <<>>

=============================================================================
